---------------------------- MODULE Spec2Model ----------------------------
(***************************************************************************)
(* Model of esque's schema-aware archive codec (src/esque/avromessage.py): *)
(* AvroFileWriter splits a stream of wire-encoded Kafka messages into      *)
(* schema-homogeneous segment directories and appends one pickled record   *)
(* per message; AvroFileReader reads the records back and resolves each to *)
(* the schema documents of the segment directory it names.                 *)
(*                                                                         *)
(* Python's Optional[T] is modelled as a sequence of length at most one:   *)
(* None is <<>> and a present value x is <<x>>.  A bytes object is a       *)
(* sequence of integers in 0..255.                                         *)
(***************************************************************************)
EXTENDS Integers, Sequences, FiniteSets, TLC

\* ------------------------------------------------------------------ bounds

\* Number of write_message_to_file calls explored.
MaxCalls == 3

\* Number of times the record stream is opened for reading.
MaxPasses == 3

\* Number of topics in the YAML file given to the apply command.
MaxTopics == 3

\* ------------------------------------------------------------- Optional[T]

None == <<>>

Some(x) == <<x>>

IsNone(o) == o = <<>>

Get(o) == o[1]

\* ------------------------------------------------------- wire header codec

\* The five-byte header esque's producers put in front of an Avro body:
\* struct.pack(">bI", marker, schema_id).
BigEndian4(n) ==
    << (n \div 16777216) % 256, (n \div 65536) % 256, (n \div 256) % 256, n % 256 >>

Wire(marker, schema_id, body) == <<marker>> \o BigEndian4(schema_id) \o body

\* message[:5]
Slice5(message) == SubSeq(message, 1, IF Len(message) < 5 THEN Len(message) ELSE 5)

\* A variant that unpacks the schema id as a signed integer (">bi").
unpack_bI_signed(head) ==
    [marker |-> IF head[1] < 128 THEN head[1] ELSE head[1] - 256,
     hi |-> IF head[2] < 128 THEN head[2] * 256 + head[3]
            ELSE head[2] * 256 + head[3] - 65536,
     lo |-> head[4] * 256 + head[5]]

\* struct.unpack(">bI", head) of five bytes: a signed byte and an unsigned
\* big-endian 32-bit integer.  The integer is kept as two 16-bit halves, its
\* value being hi * 65536 + lo, so that the whole range 0..2^32-1 is exact.
unpack_bI(head) ==
    [marker |-> IF head[1] < 128 THEN head[1] ELSE head[1] - 256,
     hi |-> head[2] * 256 + head[3],
     lo |-> head[4] * 256 + head[5]]

\* extract_schema_id: struct.unpack(">bI", message[:5]) raises struct.error
\* unless exactly five bytes are available; byte 0 is unpacked and dropped,
\* bytes 1..4 are a big-endian unsigned 32-bit integer.  The id is given as
\* one integer, which the model has for ids below 2^31.
extract_schema_id(message) ==
    LET head == Slice5(message)
    IN  IF Len(head) # 5
        THEN [err |-> "struct.error", schema_id |-> 0]
        ELSE [err |-> "",
              schema_id |-> unpack_bI(head).hi * 65536 + unpack_bI(head).lo]

\* The int -1 in halves: -1 = (-1) * 65536 + 65535.
MinusOne == [hi |-> -1, lo |-> 65535]

\* The header part of decode_bytes (lines 64-68) with the schema id in
\* halves: None returns -1 before anything is read (`read` tells whether
\* extract_schema_id was called); otherwise fake_stream.read(5) is unpacked,
\* which raises struct.error on fewer than five bytes.
decode_header(raw_data) ==
    IF IsNone(raw_data)
    THEN [err |-> "", read |-> FALSE, id |-> MinusOne]
    ELSE IF Len(Slice5(Get(raw_data))) # 5
         THEN [err |-> "struct.error", read |-> TRUE, id |-> MinusOne]
         ELSE [err |-> "", read |-> TRUE,
               id |-> [hi |-> unpack_bI(Slice5(Get(raw_data))).hi,
                       lo |-> unpack_bI(Slice5(Get(raw_data))).lo]]

\* --------------------------------------------------------- schema registry

\* The ids the registry knows, each with the schema it stores.  Id 3 is the
\* Avro "null" schema, whose only datum is null.
RegisteredIds == {1, 2, 3}

SchemaTypeOf(schema_id) ==
    CASE schema_id = 1 -> "long"
      [] schema_id = 2 -> "int"
      [] schema_id = 3 -> "null"

\* SchemaRegistryClient.get_schema_from_id(schema_id): the SchemaPair
\* (original_schema, parsed_schema) of a registered id; raises otherwise.
get_schema_from_id(schema_id) ==
    IF schema_id \in RegisteredIds
    THEN [err |-> "",
          original_schema |-> SchemaTypeOf(schema_id),
          parsed_schema   |-> [type |-> SchemaTypeOf(schema_id)]]
    ELSE [err |-> "RegistryError",
          original_schema |-> "",
          parsed_schema   |-> [type |-> ""]]

\* json.dumps of a schema document that is a JSON string.
json_dumps(original_schema) == "\"" \o original_schema \o "\""

SchemaTypes == {"long", "int", "null"}

\* confluent_kafka.avro.loads: parse the JSON text back into a schema.
load_schema(text) ==
    LET t == CHOOSE s \in SchemaTypes : json_dumps(s) = text
    IN  [type |-> t]

\* ------------------------------------------------------------- Avro codec

\* Avro's variable-length zig-zag integer, for the one-byte encodings used here.
ZigZag(b) == IF b % 2 = 0 THEN b \div 2 ELSE -((b + 1) \div 2)

\* fastavro.schemaless_reader(stream, parsed_schema) on the bytes left in the
\* stream: the null schema reads nothing and yields None; long and int read a
\* zig-zag varint and raise EOFError on an empty stream.
schemaless_reader(body, parsed_schema) ==
    IF parsed_schema.type = "null"
    THEN [err |-> "", record |-> None]
    ELSE IF Len(body) = 0
         THEN [err |-> "EOFError", record |-> None]
         ELSE [err |-> "", record |-> Some(ZigZag(body[1]))]

\* ---------------------------------------------------------------- inputs

\* message.key(): absent, schema id 1 or 2, or a four-byte (malformed) payload.
KeyPayloads ==
    { None,
      Some(Wire(0, 1, <<2>>)),
      Some(Wire(0, 2, <<2>>)),
      Some(<<0, 0, 0, 1>>) }

\* message.value(): a tombstone, schema id 1, 2 or 3 (null schema), a body
\* that ends early, an id the registry does not know, or a malformed payload.
ValuePayloads ==
    { None,
      Some(Wire(0, 1, <<4>>)),
      Some(Wire(0, 2, <<4>>)),
      Some(Wire(0, 3, <<>>)),
      Some(Wire(0, 1, <<>>)),
      Some(Wire(0, 16909060, <<4>>)),
      Some(<<0>>) }

VARIABLES
    writers,                  \* the AvroFileWriter instances constructed
    current_key_schema_id,    \* per writer: Optional[int]
    current_value_schema_id,  \* per writer: Optional[int]
    schema_dir_name,          \* per writer: Optional[str]
    schema_version,           \* per writer: the next value of it.count(1)
    working_dir,              \* directory name -> the schema files in it
    file,                     \* the record stream: the pickled dicts, in order
    rpos,                     \* the reading handle's position in the stream
    out,                      \* the KafkaMessages read_from_file returned
    rlast,                    \* outcome of the last read_from_file call
    pass,                     \* the passes made over the record stream
    ncalls,                   \* number of write_message_to_file calls made
    last,                     \* the last write_message_to_file call
    hist,                     \* what the calls so far had in common
    hdr,                      \* the last payload header decoded on its own
    app                       \* the run of the apply command

writerVars == <<current_key_schema_id, current_value_schema_id, schema_dir_name, schema_version>>

archiveVars == <<working_dir, file>>

readerVars == <<rpos, out, rlast, pass>>

otherVars == <<hdr, app>>

vars == <<writers, writerVars, archiveVars, readerVars, ncalls, last, hist, otherVars>>


\* ------------------------------------------------------------------ writer

\* The with-block of decode_bytes: the header is unpacked, the schema fetched
\* from the registry and the rest of the stream decoded against it.  Any of
\* the three steps may raise.  `asked` holds the ids the registry was asked for.
decode_present(bytes) ==
    LET h == extract_schema_id(Slice5(bytes))
    IN  IF h.err # ""
        THEN [err |-> h.err, schema_id |-> -1, record |-> None, asked |-> {}]
        ELSE LET s == get_schema_from_id(h.schema_id)
             IN  IF s.err # ""
                 THEN [err |-> s.err, schema_id |-> h.schema_id, record |-> None,
                       asked |-> {h.schema_id}]
                 ELSE LET r == schemaless_reader(SubSeq(bytes, 6, Len(bytes)),
                                                 s.parsed_schema)
                      IN  [err |-> r.err, schema_id |-> h.schema_id,
                           record |-> r.record, asked |-> {h.schema_id}]

\* A variant that treats a payload too short for a header as an absent one.
decode_bytes_short_as_absent(raw_data) ==
    IF IsNone(raw_data) \/ Len(Get(raw_data)) < 5
    THEN [err |-> "", schema_id |-> -1, record |-> None, asked |-> {}]
    ELSE decode_present(Get(raw_data))

\* AvroFileWriter.decode_bytes: None short-circuits to (-1, None).
decode_bytes(raw_data) ==
    IF IsNone(raw_data)
    THEN [err |-> "", schema_id |-> -1, record |-> None, asked |-> {}]
    ELSE decode_present(Get(raw_data))

\* A variant with a tombstone-style exception on the key channel as well.
schema_changed_key_exception(w, decoded_message) ==
    \/ /\ current_value_schema_id[w] # Some(decoded_message.value_schema_id)
       /\ ~IsNone(decoded_message.value)
    \/ /\ current_key_schema_id[w] # Some(decoded_message.key_schema_id)
       /\ ~IsNone(decoded_message.key)

\* A variant that forks on any differing value schema id, tombstone or not.
schema_changed_no_tombstone_rule(w, decoded_message) ==
    \/ current_value_schema_id[w] # Some(decoded_message.value_schema_id)
    \/ current_key_schema_id[w] # Some(decoded_message.key_schema_id)

\* AvroFileWriter.schema_changed
schema_changed(w, decoded_message) ==
    \/ /\ current_value_schema_id[w] # Some(decoded_message.value_schema_id)
       /\ ~IsNone(decoded_message.value)
    \/ current_key_schema_id[w] # Some(decoded_message.key_schema_id)

\* f"{n:04}"
Pad4(n) ==
    IF n < 10 THEN "000" \o ToString(n)
    ELSE IF n < 100 THEN "00" \o ToString(n)
    ELSE IF n < 1000 THEN "0" \o ToString(n)
    ELSE ToString(n)

\* A variant that names a segment by its schema pair alone.
SegmentName_by_pair(n, key_schema_id, value_schema_id) ==
    ToString(key_schema_id) \o "_" \o ToString(value_schema_id)

\* f"{next(self.schema_version):04}_{key_schema_id}_{value_schema_id}"
SegmentName(n, key_schema_id, value_schema_id) ==
    Pad4(n) \o "_" \o ToString(key_schema_id) \o "_" \o ToString(value_schema_id)

\* A directory as the model keeps it: the text of each schema file, if written.
EmptyDir == [key_schema |-> None, value_schema |-> None]

WithDir(dirs, name, content) ==
    [n \in DOMAIN dirs \cup {name} |-> IF n = name THEN content ELSE dirs[n]]

\* Lines 45-54 of write_message_to_file: mkdir, then fetch and write the key
\* schema, then fetch and write the value schema.  Each step may raise and
\* leaves what the earlier steps did.  `asked` holds the ids the registry was
\* asked for.
create_segment_dir(dirs, name, key_schema_id, value_schema_id) ==
    IF name \in DOMAIN dirs
    THEN [err |-> "FileExistsError", dirs |-> dirs, asked |-> {}]
    ELSE LET ks == get_schema_from_id(key_schema_id)
         IN  IF ks.err # ""
             THEN [err |-> ks.err, dirs |-> WithDir(dirs, name, EmptyDir),
                   asked |-> {key_schema_id}]
             ELSE LET withKey == [EmptyDir EXCEPT
                                    !.key_schema = Some(json_dumps(ks.original_schema))]
                      vs == get_schema_from_id(value_schema_id)
                  IN  IF vs.err # ""
                      THEN [err |-> vs.err, dirs |-> WithDir(dirs, name, withKey),
                            asked |-> {key_schema_id, value_schema_id}]
                      ELSE [err |-> "",
                            asked |-> {key_schema_id, value_schema_id},
                            dirs |-> WithDir(dirs, name,
                                [withKey EXCEPT
                                   !.value_schema = Some(json_dumps(vs.original_schema))])]

\* The dict write_message_to_file pickles.
serializable_message(decoded_key, decoded_value, name) ==
    [key |-> decoded_key, value |-> decoded_value, schema_directory_name |-> name]

\* A variant that puts the new frame in front of the stream.
pickle_dump_front(stream, obj) == <<obj>> \o stream

\* pickle.dump(serializable_message, file): one frame appended to the stream.
pickle_dump(stream, obj) == Append(stream, obj)

\* Lines 38-61 of write_message_to_file, on the results k and v of the two
\* decode_bytes calls: the state the call leaves and how it ended (err = ""
\* when it returned, else the exception raised); `asked` holds the ids the
\* registry was asked for and `minted` the segment name it assigned.
write_decoded(w, k, v) ==
    LET same == [err |-> "", decoded |-> FALSE, kid |-> None, vid |-> None,
                 dkey |-> None, dvalue |-> None,
                 cks |-> current_key_schema_id[w], cvs |-> current_value_schema_id[w],
                 sdn |-> schema_dir_name[w], sv |-> schema_version[w],
                 dirs |-> working_dir, stream |-> file,
                 asked |-> {}, minted |-> None]
    IN  IF k.err # "" THEN [same EXCEPT !.err = k.err, !.asked = k.asked]
        ELSE IF v.err # "" THEN [same EXCEPT !.err = v.err, !.asked = k.asked \cup v.asked]
        ELSE
        LET decoded_message == [key |-> k.record, value |-> v.record,
                                key_schema_id |-> k.schema_id,
                                value_schema_id |-> v.schema_id]
            dec == [same EXCEPT !.decoded = TRUE, !.asked = k.asked \cup v.asked,
                                !.kid = Some(k.schema_id), !.vid = Some(v.schema_id),
                                !.dkey = k.record, !.dvalue = v.record]
        IN  IF schema_changed(w, decoded_message) \/ IsNone(schema_dir_name[w])
            THEN LET name == SegmentName(schema_version[w], k.schema_id, v.schema_id)
                     seg == create_segment_dir(working_dir, name, k.schema_id, v.schema_id)
                     opened == [dec EXCEPT !.sdn = Some(name), !.sv = @ + 1,
                                           !.cks = Some(k.schema_id),
                                           !.cvs = Some(v.schema_id),
                                           !.dirs = seg.dirs,
                                           !.asked = @ \cup seg.asked,
                                           !.minted = Some(name)]
                 IN  IF seg.err # ""
                     THEN [opened EXCEPT !.err = seg.err]
                     ELSE [opened EXCEPT !.stream =
                             pickle_dump(file, serializable_message(k.record, v.record, name))]
            ELSE [dec EXCEPT !.stream =
                    pickle_dump(file, serializable_message(k.record, v.record,
                                                           Get(schema_dir_name[w])))]

\* The state a write_message_to_file call of writer w leaves: key and value
\* are decoded (lines 36-37), then the rest of the call runs on the results.
write_outcome(w, key, value) ==
    write_decoded(w, decode_bytes(key), decode_bytes(value))

\* What the call log keeps of the writer as the call found it.
PreState(w) ==
    [cks |-> current_key_schema_id[w], cvs |-> current_value_schema_id[w],
     sdn |-> schema_dir_name[w], sv |-> schema_version[w], flen |-> Len(file),
     prevKid |-> IF last.decoded THEN last.kid ELSE None,
     nonTombVid |-> hist.nonTombVid,
     tomb |-> IF /\ last.err = "" /\ last.decoded /\ IsNone(last.value)
                 /\ last.w = w /\ last.pre.sv = schema_version[w]
              THEN Some(<<Get(schema_dir_name[last.w]), current_value_schema_id[last.w]>>)
              ELSE None]

\* AvroFileWriter.write_message_to_file(message, file), as one step.
write_step(w, key, value) ==
    /\ \E r \in {write_outcome(w, key, value)} :
           /\ current_key_schema_id' = [current_key_schema_id EXCEPT ![w] = r.cks]
           /\ current_value_schema_id' = [current_value_schema_id EXCEPT ![w] = r.cvs]
           /\ schema_dir_name' = [schema_dir_name EXCEPT ![w] = r.sdn]
           /\ schema_version' = [schema_version EXCEPT ![w] = r.sv]
           /\ working_dir' = r.dirs
           /\ file' = r.stream
           /\ last' = [w |-> w, key |-> key, value |-> value, err |-> r.err,
                       decoded |-> r.decoded, kid |-> r.kid, vid |-> r.vid,
                       dkey |-> r.dkey, dvalue |-> r.dvalue, asked |-> r.asked,
                       pre |-> PreState(w)]
           /\ hist' = [pairs |-> IF r.decoded
                                 THEN hist.pairs \cup {<<Get(r.kid), Get(r.vid)>>}
                                 ELSE hist.pairs,
                       undecoded |-> hist.undecoded \/ ~r.decoded,
                       nonTombVid |-> IF r.err = "" /\ ~IsNone(r.dvalue)
                                      THEN r.vid ELSE hist.nonTombVid,
                       okmsgs |-> IF r.err = ""
                                  THEN Append(hist.okmsgs, [key |-> key, value |-> value])
                                  ELSE hist.okmsgs,
                       segs |-> IF IsNone(r.minted)
                                THEN hist.segs
                                ELSE Append(hist.segs,
                                            [w |-> w, name |-> Get(r.minted),
                                             kid |-> Get(r.kid), vid |-> Get(r.vid)])]
    /\ ncalls' = ncalls + 1
    /\ UNCHANGED <<writers, readerVars, otherVars>>

\* A write call, within the number of calls explored.
write_message_to_file(w, key, value) ==
    /\ ncalls < MaxCalls
    /\ write_step(w, key, value)

\* ------------------------------------------------------------------ reader

\* KafkaMessage(key, value, key_schema, value_schema)
KafkaMessage(key, value, key_schema, value_schema) ==
    [key |-> key, value |-> value, key_schema |-> key_schema, value_schema |-> value_schema]

\* A variant that looks for the value schema under another file name.
read_text_other_name(dirs, name, which) ==
    IF name \notin DOMAIN dirs THEN None
    ELSE IF which = "key_schema" THEN dirs[name].key_schema ELSE None

\* Path.read_text of a schema file of directory `name`: its text, or None
\* when the directory or the file does not exist (FileNotFoundError).
read_text(dirs, name, which) ==
    IF name \notin DOMAIN dirs THEN None
    ELSE IF which = "key_schema" THEN dirs[name].key_schema ELSE dirs[name].value_schema

\* The directories without the one called `name`.
WithoutDir(dirs, name) == [n \in DOMAIN dirs \ {name} |-> dirs[n]]

\* The reading handle before any read_from_file call on it.
NoRead ==
    [err |-> "", eof |-> FALSE, pos |-> 0, n |-> 0, ret |-> "none",
     stop |-> None, missing |-> FALSE]

\* AvroFileReader.read_from_file(file), as one step: pickle.load takes the
\* next frame (EOFError at the end gives None), then both schema files of the
\* directory the record names are read and parsed.  rlast keeps how the call
\* ended (ret: "None", "message" or "raise"), the stream length n it found,
\* and for the first call that raised on this handle the number of messages
\* returned before it (stop) and whether the directory itself was missing.
\* With `consume` the directory of a record is removed once it has been read.
read_with(consume) ==
    IF rpos = Len(file)
    THEN /\ rlast' = [rlast EXCEPT !.err = "", !.eof = TRUE, !.pos = rpos,
                                   !.n = Len(file), !.ret = "None"]
         /\ UNCHANGED <<rpos, out, pass>>
         /\ UNCHANGED <<writers, writerVars, archiveVars, ncalls, last, hist, otherVars>>
    ELSE LET record == file[rpos + 1]
             name == record.schema_directory_name
             kt == read_text(working_dir, name, "key_schema")
             vt == read_text(working_dir, name, "value_schema")
         IN  /\ rpos' = rpos + 1
             /\ IF IsNone(kt) \/ IsNone(vt)
                THEN /\ rlast' = [err |-> "FileNotFoundError", eof |-> FALSE,
                                  pos |-> rpos + 1, n |-> Len(file), ret |-> "raise",
                                  stop |-> IF IsNone(rlast.stop) THEN Some(Len(out))
                                           ELSE rlast.stop,
                                  missing |-> IF IsNone(rlast.stop)
                                              THEN name \notin DOMAIN working_dir
                                              ELSE rlast.missing]
                     /\ out' = out
                     /\ working_dir' = working_dir
                ELSE /\ rlast' = [rlast EXCEPT !.err = "", !.eof = FALSE, !.pos = rpos + 1,
                                               !.n = Len(file), !.ret = "message"]
                     /\ out' = Append(out, KafkaMessage(record.key, record.value,
                                                        load_schema(Get(kt)),
                                                        load_schema(Get(vt))))
                     /\ working_dir' = IF consume THEN WithoutDir(working_dir, name)
                                       ELSE working_dir
             /\ UNCHANGED <<writers, writerVars, file, pass, ncalls, last, hist, otherVars>>

\* A variant that removes a segment directory once a record of it was read.
read_from_file_consuming == read_with(TRUE)

\* AvroFileReader.read_from_file: the reader only reads.
read_from_file == read_with(FALSE)

\* The record stream is opened again and read from its start (by the same or
\* a new AvroFileReader, which holds nothing but working_dir).  The pass just
\* ended is kept for comparison: what it returned, how far it got and the
\* number of write calls made when it began.
reopen ==
    /\ pass.n < MaxPasses
    /\ pass' = [n |-> pass.n + 1, start |-> ncalls,
                prev |-> Some([out |-> out, rpos |-> rpos, start |-> pass.start])]
    /\ rpos' = 0
    /\ out' = <<>>
    /\ rlast' = NoRead
    /\ UNCHANGED <<writers, writerVars, archiveVars, ncalls, last, hist, otherVars>>

\* Archive corruption: a segment directory disappears from the working
\* directory (nothing in this subsystem removes one).
remove_dir ==
    /\ \E name \in DOMAIN working_dir : working_dir' = WithoutDir(working_dir, name)
    /\ UNCHANGED <<writers, writerVars, file, readerVars, ncalls, last, hist, otherVars>>

\* ------------------------------------------------------------- cli: apply

\* A Topic is modelled by its name: Topic objects compare equal, and hash
\* alike, exactly when their names are equal.
TopicNames == {"a", "b", "c"}

\* yaml_topics: the lists of at most MaxTopics topics, repeated names included.
YamlTopicLists == UNION {[1..n -> TopicNames] : n \in 0..MaxTopics}

\* set(list)
ToSet(list) == {list[i] : i \in DOMAIN list}

\* The apply command has not been run.
NoApply ==
    [pc |-> "idle", raised |-> "", yaml_topics |-> <<>>, cluster_topic_names |-> {},
     to_create |-> <<>>, to_edit |-> <<>>, to_ignore |-> <<>>,
     invalid |-> {}, no_verify |-> FALSE, confirm |-> FALSE,
     asked |-> FALSE, approved |-> FALSE, outcome |-> "", calls |-> <<>>]

\* Line 327: the YAML topics whose name the cluster does not have.
apply_to_create(yaml_topics, cluster_topic_names) ==
    LET absent(t) == t \notin cluster_topic_names
    IN  SelectSeq(yaml_topics, absent)

\* Lines 328-331: the YAML topics not in to_create whose diff with the
\* cluster has changes.
apply_to_edit(yaml_topics, to_create, has_changes) ==
    LET changed(t) == t \notin ToSet(to_create) /\ has_changes[t]
    IN  SelectSeq(yaml_topics, changed)

\* A variant that ignores every topic that is not created, edited or not.
apply_to_ignore_not_created(yaml_topics, to_create, to_edit) ==
    LET rest(t) == t \notin ToSet(to_create)
    IN  SelectSeq(yaml_topics, rest)

\* Line 333: the YAML topics in neither of the two groups.
apply_to_ignore(yaml_topics, to_create, to_edit) ==
    LET rest(t) == t \notin ToSet(to_create) /\ t \notin ToSet(to_edit)
    IN  SelectSeq(yaml_topics, rest)

\* Lines 336-341: the condition of the sanity assertion.
sanity_check(yaml_topics, to_create, to_edit, to_ignore) ==
    /\ ToSet(to_create) \cap ToSet(to_edit) = {}
    /\ ToSet(to_create) \cap ToSet(to_ignore) = {}
    /\ ToSet(to_edit) \cap ToSet(to_ignore) = {}
    /\ Len(to_create) + Len(to_edit) + Len(to_ignore) = Len(yaml_topics)

\* ensure_approval(question, no_verify=...): no question is asked under
\* no_verify; otherwise the answer the user gives is returned.
ensure_approval(no_verify, confirm) == no_verify \/ confirm

\* A variant that does not look at the validity of the diffs.
apply_changes_unvalidated(to_create, to_edit, invalid, no_verify, confirm) ==
    IF Len(to_edit) + Len(to_create) = 0
    THEN [outcome |-> "no_changes", asked |-> FALSE, approved |-> FALSE, calls |-> <<>>]
    ELSE IF ~ensure_approval(no_verify, confirm)
         THEN [outcome |-> "cancelled", asked |-> TRUE, approved |-> FALSE,
               calls |-> <<>>]
         ELSE [outcome |-> "applied", asked |-> TRUE, approved |-> TRUE,
               calls |-> << [op |-> "create_topics", topics |-> to_create],
                            [op |-> "alter_configs", topics |-> to_edit] >>]

\* Lines 348-368: the three early returns, then the two calls that change
\* the cluster.  `invalid` holds the topics of to_edit whose diff is not
\* valid; `calls` lists the changing calls made on the topic controller.
apply_changes(to_create, to_edit, invalid, no_verify, confirm) ==
    IF Len(to_edit) + Len(to_create) = 0
    THEN [outcome |-> "no_changes", asked |-> FALSE, approved |-> FALSE, calls |-> <<>>]
    ELSE IF invalid # {}
         THEN [outcome |-> "invalid", asked |-> FALSE, approved |-> FALSE,
               calls |-> <<>>]
         ELSE IF ~ensure_approval(no_verify, confirm)
              THEN [outcome |-> "cancelled", asked |-> TRUE, approved |-> FALSE,
                    calls |-> <<>>]
              ELSE [outcome |-> "applied", asked |-> TRUE, approved |-> TRUE,
                    calls |-> << [op |-> "create_topics", topics |-> to_create],
                                 [op |-> "alter_configs", topics |-> to_edit] >>]

\* The apply command (lines 314-368), run once.  cluster_topic_names is
\* what list_topics returned (of its names, those of YAML topics matter), has_changes what the first diff_with_cluster
\* of a topic said (line 330), is_valid what its second diff said (line 332).
apply(yaml_topics, cluster_topic_names, has_changes, is_valid, no_verify, confirm) ==
    /\ app.pc = "idle"
    /\ IF Len(yaml_topics) # Cardinality(ToSet(yaml_topics))
       THEN app' = [NoApply EXCEPT !.pc = "done", !.raised = "ValidationException",
                                   !.yaml_topics = yaml_topics]
       ELSE \E to_create \in {apply_to_create(yaml_topics, cluster_topic_names)} :
            \E to_edit \in {apply_to_edit(yaml_topics, to_create, has_changes)} :
            \E to_ignore \in {apply_to_ignore(yaml_topics, to_create, to_edit)} :
            \E invalid \in {{t \in ToSet(to_edit) : ~is_valid[t]}} :
            \E r \in {apply_changes(to_create, to_edit, invalid, no_verify, confirm)} :
               app' = IF ~sanity_check(yaml_topics, to_create, to_edit, to_ignore)
                      THEN [NoApply EXCEPT !.pc = "done", !.raised = "AssertionError",
                               !.yaml_topics = yaml_topics,
                               !.cluster_topic_names = cluster_topic_names,
                               !.to_create = to_create, !.to_edit = to_edit,
                               !.to_ignore = to_ignore]
                      ELSE [pc |-> "done", raised |-> "", yaml_topics |-> yaml_topics,
                            cluster_topic_names |-> cluster_topic_names,
                            to_create |-> to_create, to_edit |-> to_edit,
                            to_ignore |-> to_ignore, invalid |-> invalid,
                            no_verify |-> no_verify, confirm |-> confirm,
                            asked |-> r.asked, approved |-> r.approved,
                            outcome |-> r.outcome, calls |-> r.calls]
    /\ UNCHANGED <<writers, writerVars, archiveVars, readerVars, ncalls, last, hist, hdr>>

\* ----------------------------------------------------------- specification

NoCall ==
    [w |-> 1, key |-> None, value |-> None, err |-> "none", decoded |-> FALSE,
     kid |-> None, vid |-> None, dkey |-> None, dvalue |-> None, asked |-> {},
     pre |-> [cks |-> None, cvs |-> None, sdn |-> None, sv |-> 1, flen |-> 0,
              prevKid |-> None, nonTombVid |-> None, tomb |-> None]]

\* No payload has been decoded on its own yet.
NoHeader ==
    [called |-> FALSE, raw |-> None,
     res |-> [err |-> "", read |-> FALSE, id |-> MinusOne], full |-> None]

\* AvroFileWriter.__init__ and AvroFileReader.__init__ over an empty working
\* directory and an empty record stream.
InitWith(ws) ==
    /\ writers = ws
    /\ current_key_schema_id = [w \in ws |-> None]
    /\ current_value_schema_id = [w \in ws |-> None]
    /\ schema_dir_name = [w \in ws |-> None]
    /\ schema_version = [w \in ws |-> 1]
    /\ working_dir = [n \in {} |-> EmptyDir]
    /\ file = <<>>
    /\ rpos = 0
    /\ out = <<>>
    /\ rlast = NoRead
    /\ pass = [n |-> 1, start |-> 0, prev |-> None]
    /\ ncalls = 0
    /\ last = NoCall
    /\ hist = [pairs |-> {}, undecoded |-> FALSE, nonTombVid |-> None, okmsgs |-> <<>>,
               segs |-> <<>>]
    /\ hdr = NoHeader
    /\ app = NoApply

Init == InitWith({1})

Write == \E w \in writers, key \in KeyPayloads, value \in ValuePayloads :
            write_message_to_file(w, key, value)

Read == read_from_file

Next == Write \/ Read

Spec == Init /\ [][Next]_vars

Reopen == reopen

\* The messages written where the stream is read more than once: key absent
\* or of schema id 1, value absent or of schema id 1 or 2.
RereadKeys == {None, Some(Wire(0, 1, <<2>>))}

RereadValues == {None, Some(Wire(0, 1, <<4>>)), Some(Wire(0, 2, <<4>>))}

RereadWrite == \E w \in writers, key \in RereadKeys, value \in RereadValues :
                  write_message_to_file(w, key, value)

NextReread == RereadWrite \/ Read \/ Reopen

\* Writer and reader, and the record stream may be read again from its
\* start.
SpecReread == Init /\ [][NextReread]_vars

Corrupt == remove_dir

NextCorrupt == Write \/ Read \/ Corrupt

\* Writer and reader as in Spec, over an archive that can lose directories.
SpecCorrupt == Init /\ [][NextCorrupt]_vars

\* The example stream of the testable properties, by schema ids: (key id 1,
\* value id 1) three times, (key id 1, value id 2) twice, a tombstone with
\* key id 1, and (key id 1, value id 2) once more.
ExampleStream ==
    << [kid |-> 1, vid |-> Some(1)], [kid |-> 1, vid |-> Some(1)],
       [kid |-> 1, vid |-> Some(1)], [kid |-> 1, vid |-> Some(2)],
       [kid |-> 1, vid |-> Some(2)], [kid |-> 1, vid |-> None],
       [kid |-> 1, vid |-> Some(2)] >>

\* The Avro bodies the example's values carry.
ExampleBodies == {<<2>>, <<4>>}

\* The next message of the example stream is written by the one writer.
ExampleWrite ==
    /\ ncalls < Len(ExampleStream)
    /\ \E body \in ExampleBodies :
          LET m == ExampleStream[ncalls + 1]
          IN  write_step(1, Some(Wire(0, m.kid, <<2>>)),
                         IF IsNone(m.vid) THEN None
                         ELSE Some(Wire(0, Get(m.vid), body)))

NextExample == ExampleWrite \/ Read

\* A fresh writer is fed the example stream while a reader follows it.
SpecExample == Init /\ [][NextExample]_vars

\* Two AvroFileWriter instances constructed over the same working directory.
InitShared == InitWith({1, 2})

SharedWrite == \E w \in writers, key \in RereadKeys, value \in RereadValues :
                  write_message_to_file(w, key, value)

NextShared == SharedWrite \/ Read

\* Two writers write into one working directory while a reader follows.
SpecShared == InitShared /\ [][NextShared]_vars

\* The byte values the decoded headers are made of.
HeaderBytes == {0, 1, 3, 127, 128, 255}

\* raw_data of decode_bytes: None, payloads shorter than a header, and every
\* five-byte header over HeaderBytes followed by an empty or one-byte body.
HeaderPayloads ==
    {None, Some(<<>>), Some(<<0>>), Some(<<0, 0, 0, 1>>), Some(<<255, 255, 255, 255>>)}
    \cup {Some(<<m, a, b, c, d>> \o body) :
             m \in HeaderBytes, a \in HeaderBytes, b \in HeaderBytes,
             c \in HeaderBytes, d \in HeaderBytes, body \in {<<>>, <<4>>}}

\* The schema id of the payload fits the integers of the model (below 2^31),
\* or the payload has no header to take one from.
NarrowId(raw_data) ==
    IsNone(raw_data) \/ Len(Get(raw_data)) < 5 \/ Get(raw_data)[2] < 128

\* AvroFileWriter.decode_bytes(raw_data) called on its own: the header part
\* for every payload, and the whole call where the id fits the model's
\* integers.  A behaviour decodes one payload.
decode_bytes_call(raw_data) ==
    /\ ~hdr.called
    /\ hdr' = [called |-> TRUE, raw |-> raw_data, res |-> decode_header(raw_data),
               full |-> IF NarrowId(raw_data) THEN Some(decode_bytes(raw_data))
                        ELSE None]
    /\ UNCHANGED <<writers, writerVars, archiveVars, readerVars, ncalls, last, hist, app>>

DecodeBytes == \E raw_data \in HeaderPayloads : decode_bytes_call(raw_data)

NextHeader == DecodeBytes

\* decode_bytes applied to payloads, one at a time.
SpecHeader == Init /\ [][NextHeader]_vars

Apply ==
    \E yaml_topics \in YamlTopicLists, cluster_topic_names \in SUBSET TopicNames,
       has_changes \in [TopicNames -> BOOLEAN], is_valid \in [TopicNames -> BOOLEAN],
       no_verify \in BOOLEAN, confirm \in BOOLEAN :
        apply(yaml_topics, cluster_topic_names, has_changes, is_valid, no_verify, confirm)

NextApply == Apply

\* The apply command is run on a YAML file against a cluster.
SpecApply == Init /\ [][NextApply]_vars

\* ------------------------------------------------------------------ claims

\* A write call has been made, and `last` describes it.
Called == last.err # "none"

\* The last call got past decoding, so its message has schema ids.
Decoded == Called /\ last.decoded

\* The name the last call's segment has if it opened one.
NewName == SegmentName(last.pre.sv, Get(last.kid), Get(last.vid))

\* The last call opened a segment: the counter advanced by one, the writer's
\* current segment is the newly minted name, and its directory exists.
Opened ==
    /\ schema_version[last.w] = last.pre.sv + 1
    /\ schema_dir_name[last.w] = Some(NewName)
    /\ NewName \in DOMAIN working_dir

\* The last call opened nothing: counter, current segment and the number of
\* directories are as the call found them.
NotOpened ==
    /\ schema_version[last.w] = last.pre.sv
    /\ schema_dir_name[last.w] = last.pre.sdn
    /\ Cardinality(DOMAIN working_dir) = last.pre.sv - 1

\* The trigger of the segment manager, on the writer state the last call
\* found and the message it decoded.
Trigger ==
    \/ IsNone(last.pre.sdn)
    \/ last.pre.cks # last.kid
    \/ (last.pre.cvs # last.vid /\ ~IsNone(last.dvalue))

\* C1: a write call (whose message decodes) opens a new segment if and only
\* if the trigger holds at that call: no segment exists yet, or the current
\* key schema id differs from the message's, or the current value schema id
\* differs from the message's and the decoded value is present.  In every
\* other case, a call that fails in decoding included, no segment is opened.
C1_OpensIffTrigger ==
    /\ Decoded => ((Trigger => Opened) /\ (~Trigger => NotOpened))
    /\ (Called /\ ~last.decoded) => NotOpened

\* C1 witness: a segment existed, the key schema id was the current one and
\* a present value with another schema id opened the next segment.
C1_Witness ==
    /\ Decoded /\ ~IsNone(last.pre.sdn) /\ last.pre.cks = last.kid
    /\ last.pre.cvs # last.vid /\ ~IsNone(last.dvalue)
    /\ Opened /\ last.err = ""

\* C2: for a stream of N >= 1 messages written to a fresh writer, all with
\* the same (key_schema_id, value_schema_id), exactly one segment is created
\* and N records are appended, all naming that segment.
C2_OnePairOneSegment ==
    (ncalls >= 1 /\ ~hist.undecoded /\ Cardinality(hist.pairs) = 1)
        => /\ Cardinality(DOMAIN working_dir) = 1
           /\ Len(file) = ncalls
           /\ \A i \in 1..Len(file) : file[i].schema_directory_name \in DOMAIN working_dir

\* C3: with a segment open and the key schema id unchanged, a call opens a
\* segment (a fork caused by the value channel) exactly when its value is
\* present and its value schema id differs from that of the most recent
\* earlier message written with a present value.
C3_ValueForkAgainstPriorValue ==
    (Decoded /\ ~IsNone(last.pre.sdn) /\ last.pre.cks = last.kid
        /\ ~IsNone(last.pre.nonTombVid))
        => (Opened <=> (~IsNone(last.dvalue) /\ last.vid # last.pre.nonTombVid))

\* The last call wrote a tombstone (absent value, value schema id -1) with
\* the writer's current key schema id while a segment existed.
TombstoneInSegment ==
    /\ Decoded /\ ~IsNone(last.pre.sdn)
    /\ IsNone(last.value) /\ last.vid = Some(-1)
    /\ last.kid = last.pre.cks

\* The last call followed a tombstone that stayed in its segment and carries
\* the key and value schema ids that were current at the tombstone.
FollowsTombstone ==
    /\ Decoded /\ ~IsNone(last.pre.tomb)
    /\ last.kid = last.pre.cks
    /\ last.vid = Get(last.pre.tomb)[2]

\* The last call returned, opened nothing, and appended one record naming
\* the segment `name`.
AppendedTo(name) ==
    /\ last.err = ""
    /\ NotOpened
    /\ Len(file) = last.pre.flen + 1
    /\ file[Len(file)].schema_directory_name = name

\* C4: once a segment exists, a tombstone whose key schema id is the current
\* one never opens a segment: its record is appended to the current segment
\* and current_value_schema_id is left unchanged, so a following message with
\* the previous value schema id stays in that segment too.
C4_TombstoneNeverForks ==
    /\ TombstoneInSegment
         => /\ AppendedTo(Get(last.pre.sdn))
            /\ current_value_schema_id[last.w] = last.pre.cvs
    /\ FollowsTombstone
         => /\ AppendedTo(Get(last.pre.tomb)[1])
            /\ current_value_schema_id[last.w] = last.pre.cvs

\* C4 witness: a message with a real value schema id followed a tombstone
\* and was appended to the segment the tombstone stayed in.
C4_Witness ==
    /\ FollowsTombstone /\ ~IsNone(last.dvalue) /\ Get(last.vid) >= 0
    /\ AppendedTo(Get(last.pre.tomb)[1])
    /\ Len(file) >= 3
    /\ IsNone(file[Len(file) - 1].value)
    /\ file[Len(file) - 1].schema_directory_name = Get(last.pre.tomb)[1]

\* The last call's message has an absent key and the call before it decoded
\* a message with a real key schema id.
AbsentKeyAfterRealKey ==
    /\ Decoded /\ IsNone(last.key) /\ last.kid = Some(-1)
    /\ ~IsNone(last.pre.prevKid) /\ Get(last.pre.prevKid) >= 0

\* C5: a message with an absent key written immediately after a message
\* with a real key schema id always opens a new segment, whatever its value.
C5_AbsentKeyForks == AbsentKeyAfterRealKey => Opened

\* C5 witness: an absent-key tombstone after a real key opened a segment.
C5_Witness == AbsentKeyAfterRealKey /\ IsNone(last.value) /\ Opened

\* The schema document the registry holds for a schema id, as the reader
\* parses it.
RegistrySchema(schema_id) == [type |-> get_schema_from_id(schema_id).original_schema]

\* The i-th message read back is the i-th message written: same key and
\* value, and for each channel with a schema id the registry's document.
ReadBackMatches(i) ==
    LET k == decode_bytes(hist.okmsgs[i].key)
        v == decode_bytes(hist.okmsgs[i].value)
    IN  /\ out[i].key = k.record
        /\ out[i].value = v.record
        /\ k.schema_id >= 0 => out[i].key_schema = RegistrySchema(k.schema_id)
        /\ v.schema_id >= 0 => out[i].value_schema = RegistrySchema(v.schema_id)

\* C6: round trip: every record read so far gave a message, and the messages
\* read are the messages written, in order, each with the schema documents
\* the registry holds for its own key and value schema ids.
C6_RoundTrip ==
    /\ Len(out) = rpos
    /\ \A i \in 1..Len(out) : ReadBackMatches(i)

\* C7: every record of the stream names a directory that exists and holds
\* both schema documents.
C7_RecordSchemasRecoverable ==
    \A i \in 1..Len(file) :
        /\ file[i].schema_directory_name \in DOMAIN working_dir
        /\ ~IsNone(working_dir[file[i].schema_directory_name].key_schema)
        /\ ~IsNone(working_dir[file[i].schema_directory_name].value_schema)

\* C8: a write call that fails in a registry lookup appends no record and
\* leaves the directories and the writer's current key and value schema ids
\* and current segment name as it found them.
C8_RegistryFailureAbortsOnlyMessage ==
    (Called /\ last.err = "RegistryError")
        => /\ Len(file) = last.pre.flen
           /\ current_key_schema_id[last.w] = last.pre.cks
           /\ current_value_schema_id[last.w] = last.pre.cvs
           /\ NotOpened

\* A present payload shorter than the five header bytes.
Short(raw_data) == ~IsNone(raw_data) /\ Len(Get(raw_data)) < 5

\* C9: a write call whose key or value payload is present but shorter than
\* five bytes fails with an error and changes nothing: no segment is
\* created, the counter is not advanced, the current schema ids stay and no
\* record is appended.
C9_MalformedLeavesState ==
    (Called /\ (Short(last.key) \/ Short(last.value)))
        => /\ last.err # ""
           /\ NotOpened
           /\ current_key_schema_id[last.w] = last.pre.cks
           /\ current_value_schema_id[last.w] = last.pre.cvs
           /\ Len(file) = last.pre.flen

\* C9 witness: a malformed value arrived with a well-formed key whose schema
\* id differs from the current one, after records had been written.
C9_Witness ==
    /\ Called /\ Short(last.value) /\ ~IsNone(last.key) /\ ~Short(last.key)
    /\ last.err = "struct.error"
    /\ Len(file) >= 1
    /\ last.pre.cks # Some(decode_bytes(last.key).schema_id)

\* C10: every successful write call appends exactly one record and a failed
\* one none; the stream holds the successfully written messages' keys and
\* values in call order.
C10_OneRecordPerCallInOrder ==
    /\ Len(file) = Len(hist.okmsgs)
    /\ \A i \in 1..Len(file) :
          /\ file[i].key = decode_bytes(hist.okmsgs[i].key).record
          /\ file[i].value = decode_bytes(hist.okmsgs[i].value).record
    /\ (Called /\ last.err = "") => Len(file) = last.pre.flen + 1
    /\ (Called /\ last.err # "") => Len(file) = last.pre.flen

\* C10 witness: three calls of which one of the first two failed; the two
\* records written differ and are in call order.
C10_Witness ==
    /\ ncalls = 3 /\ Len(file) = 2 /\ last.err = ""
    /\ file[1].value # file[2].value

\* The segments writer w opened, in the order it opened them.
SegsOf(w) == SelectSeq(hist.segs, LAMBDA g : g.w = w)

\* C11: within one writer session segment names are pairwise distinct and
\* their numeric prefixes are 1, 2, 3, ... in the order the segments are
\* opened.
C11_NamesDistinctAndIncreasing ==
    \A w \in writers :
        LET ss == SegsOf(w)
        IN  \A i \in 1..Len(ss) :
                /\ \E k, v \in RegisteredIds \cup {-1} : ss[i].name = SegmentName(i, k, v)
                /\ \A j \in 1..Len(ss) : i # j => ss[i].name # ss[j].name

\* C11 witness: three segments were opened, the third for the pair of the first.
C11_Witness ==
    /\ Len(hist.segs) = 3
    /\ hist.segs[1].kid = hist.segs[3].kid /\ hist.segs[1].vid = hist.segs[3].vid
    /\ hist.segs[1].name = "0001_1_1" /\ hist.segs[3].name = "0003_1_1"

\* The position among the opened segments of the segment called `name`.
SegIndex(name) == CHOOSE i \in 1..Len(hist.segs) : hist.segs[i].name = name

\* C12: a schema pair that had a segment earlier gets a new segment with a
\* higher sequence number when it becomes current again: the earlier
\* directory is not reused, every record written names the segment opened
\* last, and so no later record names an earlier segment.
C12_RecurringPairOpensNewSegment ==
    /\ \A i, j \in 1..Len(hist.segs) :
          (i < j /\ hist.segs[i].kid = hist.segs[j].kid
                 /\ hist.segs[i].vid = hist.segs[j].vid)
             => /\ hist.segs[i].name # hist.segs[j].name
                /\ hist.segs[j].name = SegmentName(j, hist.segs[j].kid, hist.segs[j].vid)
    /\ \A p, q \in 1..Len(file) :
          p < q => SegIndex(file[p].schema_directory_name)
                     <= SegIndex(file[q].schema_directory_name)
    /\ (Called /\ last.err = "")
          => file[Len(file)].schema_directory_name = hist.segs[Len(hist.segs)].name

\* C12 witness: pair (1, 1), then (1, 2), then (1, 1) again: three segments,
\* and the third record names the third segment, not the first.
C12_Witness ==
    /\ Len(hist.segs) = 3 /\ Len(file) = 3
    /\ hist.segs[1].kid = 1 /\ hist.segs[1].vid = 1
    /\ hist.segs[2].vid = 2
    /\ hist.segs[3].kid = 1 /\ hist.segs[3].vid = 1
    /\ file[1].schema_directory_name = "0001_1_1"
    /\ file[3].schema_directory_name = "0003_1_1"

\* C13: every segment the writer created has a key schema id >= 0.
C13_SegmentKeyIdDefined ==
    \A i \in 1..Len(hist.segs) :
        hist.segs[i].name \in DOMAIN working_dir => hist.segs[i].kid >= 0

\* C14: no write call asks the registry for schema id -1.
C14_RegistryNeverAskedMinusOne == -1 \notin last.asked

\* The whole example stream has been written.
ExampleDone == ncalls = Len(ExampleStream)

\* Records 1-3 of the example name segment 0001 and records 4-7 (the
\* tombstone is the sixth) name segment 0002.
ExampleRecords ==
    /\ Len(file) = Len(ExampleStream)
    /\ \A i \in 1..3 : file[i].schema_directory_name = "0001_1_1"
    /\ \A i \in 4..Len(file) : file[i].schema_directory_name = "0002_1_2"

\* C15 as stated: the example stream creates exactly 3 segments, records
\* 1-3 in segment 0001 and records 4, 5, the tombstone and 7 in segment 0002.
C15_ExampleThreeSegments ==
    ExampleDone => (Cardinality(DOMAIN working_dir) = 3 /\ ExampleRecords)

\* C15 amended: the example stream creates exactly 2 segments, 0001_1_1 and
\* 0002_1_2, records 1-3 in the first and records 4, 5, the tombstone and 7
\* in the second.
C15_ExampleTwoSegments ==
    ExampleDone => (DOMAIN working_dir = {"0001_1_1", "0002_1_2"} /\ ExampleRecords)

\* C15 witness: the example has been written and its tombstone went to 0002.
C15_Witness ==
    /\ ExampleDone /\ Len(file) = Len(ExampleStream)
    /\ IsNone(file[6].value) /\ file[6].schema_directory_name = "0002_1_2"
    /\ schema_version[1] = 3

\* C16: once read_from_file has raised because the directory a record names
\* is missing, no later call on the same stream returns a message: the
\* messages returned stay those returned before the failing record.
C16_MissingSegmentEndsReading ==
    (~IsNone(rlast.stop) /\ rlast.missing) => Len(out) = Get(rlast.stop)

\* Every record of the stream names a directory holding both schema files.
ArchiveIntact ==
    \A i \in 1..Len(file) :
        /\ file[i].schema_directory_name \in DOMAIN working_dir
        /\ ~IsNone(working_dir[file[i].schema_directory_name].key_schema)
        /\ ~IsNone(working_dir[file[i].schema_directory_name].value_schema)

\* C17: on an archive whose segments are all intact no read raises, every
\* record read gives a message, and a call returns None exactly when it finds
\* the stream exhausted, after as many messages as the stream had records;
\* so does every further call.
C17_IntactArchiveReadsToEnd ==
    ArchiveIntact
        => /\ rlast.ret # "raise" /\ IsNone(rlast.stop)
           /\ Len(out) = rpos
           /\ rlast.ret = "None" => (rlast.pos = rlast.n /\ Len(out) >= rlast.n)
           /\ rlast.ret = "message" => rlast.pos <= rlast.n

\* C17 witness: an intact archive of at least two records was read to its
\* end and the last call returned None.
C17_Witness ==
    /\ ArchiveIntact /\ Len(file) >= 2
    /\ rlast.ret = "None" /\ rlast.n = Len(file)
    /\ Len(out) = Len(file)

\* With no write call since the previous pass began, this pass has returned,
\* at the position the previous pass reached, the same messages and schemas.
RereadAgrees ==
    (~IsNone(pass.prev) /\ Get(pass.prev).start = ncalls
        /\ rpos = Get(pass.prev).rpos)
        => out = Get(pass.prev).out

\* C18: reading does not change the archive: a step that is not a write call
\* leaves the directories and the record stream as they are, and reading the
\* same archive again from the start yields the same messages and schemas.
C18_ReadingLeavesArchive ==
    /\ []RereadAgrees
    /\ [][ncalls' = ncalls => UNCHANGED <<working_dir, file>>]_vars

\* C18 witness: an archive of at least two records, one of them unreadable,
\* was read to its end twice with no write in between.
C18_Witness ==
    /\ ~IsNone(pass.prev) /\ Get(pass.prev).start = ncalls
    /\ rpos = Len(file) /\ Get(pass.prev).rpos = Len(file)
    /\ Len(file) >= 2 /\ Len(out) >= 1 /\ Len(out) < Len(file)

\* The schema files present in the working directory.
SchemaFiles(dirs) ==
    {nf \in (DOMAIN dirs) \X {"key_schema", "value_schema"} :
        ~IsNone(dirs[nf[1]][nf[2]])}

\* What is there before a write call is still there, unchanged, after it.
KeepsExisting ==
    \A name \in DOMAIN working_dir :
        name \in DOMAIN working_dir' /\ working_dir'[name] = working_dir[name]

\* C19: a write call that does not trigger (or fails before the trigger is
\* evaluated) leaves current_key_schema_id, current_value_schema_id, the
\* current segment name and the counter unchanged and creates no directory or
\* schema file; a write call that triggers creates at most one directory and
\* at most two schema files and advances the counter by exactly one.
C19_WriteFrame ==
    [][ncalls' = ncalls + 1 =>
        IF Decoded' /\ Trigger'
        THEN /\ schema_version'[last'.w] = schema_version[last'.w] + 1
             /\ KeepsExisting
             /\ Cardinality(DOMAIN working_dir')
                    <= Cardinality(DOMAIN working_dir) + 1
             /\ Cardinality(SchemaFiles(working_dir'))
                    <= Cardinality(SchemaFiles(working_dir)) + 2
        ELSE /\ current_key_schema_id' = current_key_schema_id
             /\ current_value_schema_id' = current_value_schema_id
             /\ schema_dir_name' = schema_dir_name
             /\ schema_version' = schema_version
             /\ working_dir' = working_dir]_vars

\* C19 witness: after two calls that each opened a segment, a third call
\* decoded, did not trigger and appended its record.
C19_Witness ==
    /\ Decoded /\ ~Trigger /\ last.err = ""
    /\ last.pre.sv = 3 /\ schema_version[last.w] = 3
    /\ Cardinality(SchemaFiles(working_dir)) = 4
    /\ Len(file) = 3

\* C20: the record a successful write appends names a segment that was opened
\* with the message's key schema id and, when the message has a value, with
\* the message's value schema id; and the ids in the current segment name are
\* the writer's current_key_schema_id and current_value_schema_id.
C20_RecordSegmentMatchesMessage ==
    /\ (Called /\ last.err = "") =>
          \E i \in 1..Len(hist.segs) :
              /\ hist.segs[i].name = file[Len(file)].schema_directory_name
              /\ hist.segs[i].kid = Get(last.kid)
              /\ ~IsNone(last.value) => hist.segs[i].vid = Get(last.vid)
    /\ \A w \in writers :
          ~IsNone(schema_dir_name[w]) =>
              Get(schema_dir_name[w])
                  = SegmentName(schema_version[w] - 1,
                                Get(current_key_schema_id[w]),
                                Get(current_value_schema_id[w]))

\* C21: decode_bytes of an absent payload gives schema id -1 and no decoded
\* value without reading a header (and without asking the registry); of a
\* present payload of at least five bytes it gives the schema id that bytes
\* 1-4 spell as a big-endian unsigned 32-bit integer, in 0..2^32-1, the same
\* whatever byte 0 is, and so never -1.
C21_HeaderDecoding ==
    hdr.called =>
        /\ IsNone(hdr.raw) =>
              /\ hdr.res = [err |-> "", read |-> FALSE, id |-> MinusOne]
              /\ Get(hdr.full).err = "" /\ Get(hdr.full).schema_id = -1
              /\ IsNone(Get(hdr.full).record) /\ Get(hdr.full).asked = {}
        /\ (~IsNone(hdr.raw) /\ Len(Get(hdr.raw)) >= 5) =>
              /\ hdr.res.err = "" /\ hdr.res.read
              /\ hdr.res.id.hi = Get(hdr.raw)[2] * 256 + Get(hdr.raw)[3]
              /\ hdr.res.id.lo = Get(hdr.raw)[4] * 256 + Get(hdr.raw)[5]
              /\ hdr.res.id.hi \in 0..65535 /\ hdr.res.id.lo \in 0..65535
              /\ hdr.res.id # MinusOne
              /\ decode_header(Some([Get(hdr.raw) EXCEPT ![1] = 0])).id = hdr.res.id
              /\ ~IsNone(hdr.full) =>
                    /\ Get(hdr.full).err # "struct.error"
                    /\ Get(hdr.full).schema_id
                          = hdr.res.id.hi * 65536 + hdr.res.id.lo
                    /\ Get(hdr.full).schema_id # -1

\* C21 witness: a payload whose five header bytes are all 255 was decoded;
\* its schema id is 2^32-1.
C21_Witness ==
    /\ hdr.called /\ ~IsNone(hdr.raw) /\ Len(Get(hdr.raw)) >= 5
    /\ SubSeq(Get(hdr.raw), 1, 5) = <<255, 255, 255, 255, 255>>
    /\ hdr.res.id = [hi |-> 65535, lo |-> 65535]

\* C22: in every decoded message the value is absent exactly when its
\* value_schema_id is -1, and a message whose value payload is present and
\* whose value schema id differs from the writer's current_value_schema_id
\* opens a new segment, also when the payload decodes to null.
C22_OnlyTombstonesExempt ==
    Decoded =>
        /\ IsNone(last.dvalue) <=> last.vid = Some(-1)
        /\ (~IsNone(last.value) /\ last.pre.cvs # last.vid) => Opened

\* The writer whose mkdir created directory `name`: the first to mint it.
CreatorOf(name) ==
    hist.segs[CHOOSE i \in 1..Len(hist.segs) :
                 /\ hist.segs[i].name = name
                 /\ \A j \in 1..(i - 1) : hist.segs[j].name # name].w

\* C23: when a writer mints a name whose directory the other writer created,
\* its mkdir raises and the directory is left as it is, and no writer then
\* uses a directory the other one created: the record a successful call
\* appends names a directory its own writer created.
C23_SharedDirectoryNotReused ==
    /\ (Decoded /\ (Trigger \/ IsNone(last.pre.sdn))
            /\ NewName \in DOMAIN working_dir /\ CreatorOf(NewName) # last.w)
          => last.err = "FileExistsError"
    /\ (Called /\ last.err = "")
          => CreatorOf(file[Len(file)].schema_directory_name) = last.w

\* The apply command ran on a YAML file whose topic names are distinct.
AppliedDistinct == app.pc = "done" /\ app.raised # "ValidationException"

\* The number of places of a list that hold topic t.
Occurrences(list, t) == Cardinality({i \in DOMAIN list : list[i] = t})

\* C24: for YAML topics with distinct names and any cluster state, to_create,
\* to_edit and to_ignore are pairwise disjoint and together hold every YAML
\* topic exactly once, and the sanity assertion does not fail.
C24_GroupsPartition ==
    AppliedDistinct =>
        /\ ToSet(app.to_create) \cap ToSet(app.to_edit) = {}
        /\ ToSet(app.to_create) \cap ToSet(app.to_ignore) = {}
        /\ ToSet(app.to_edit) \cap ToSet(app.to_ignore) = {}
        /\ \A t \in TopicNames :
              Occurrences(app.to_create \o app.to_edit \o app.to_ignore, t)
                  = Occurrences(app.yaml_topics, t)
        /\ \A t \in ToSet(app.yaml_topics) : Occurrences(app.yaml_topics, t) = 1
        /\ app.raised # "AssertionError"

\* C24 witness: apply ran on three topics, one for each group.
C24_Witness ==
    /\ AppliedDistinct /\ app.raised = ""
    /\ Len(app.to_create) = 1 /\ Len(app.to_edit) = 1 /\ Len(app.to_ignore) = 1

\* C25: apply calls create_topics / alter_configs only when there is a topic
\* to create or edit, no diff of a topic to edit is invalid, and the approval
\* was given (by the answer, or by no_verify); it then makes these two calls
\* with to_create and to_edit, and on every other path it makes no changing
\* call.
C25_ChangesOnlyWhenApproved ==
    app.pc = "done" =>
        IF /\ app.raised = ""
           /\ Len(app.to_create) + Len(app.to_edit) > 0
           /\ app.invalid = {}
           /\ (app.no_verify \/ app.confirm)
        THEN app.calls = << [op |-> "create_topics", topics |-> app.to_create],
                            [op |-> "alter_configs", topics |-> app.to_edit] >>
        ELSE app.calls = <<>>

\* C25 witness: with a topic to create and a topic to edit, all diffs valid,
\* the user answered yes and the two calls were made.
C25_Witness ==
    /\ app.pc = "done" /\ app.outcome = "applied"
    /\ Len(app.to_create) >= 1 /\ Len(app.to_edit) >= 1
    /\ app.confirm /\ ~app.no_verify
    /\ Len(app.calls) = 2

==========================================================================
